---- MODULE Spec2Model ----
(***************************************************************************)
(* Model of the quote-resolution cascade of src/src/App.tsx: the effect    *)
(* of App starts run(), which tries fetchWithFinnhub, fetchWithFMP and     *)
(* fetchWithTwelveData in turn and writes the React state (stocks,         *)
(* loading, error, note, dataSource).                                      *)
(*                                                                         *)
(* One action is one event-loop task: the delivery of one HTTP response    *)
(* (or the firing of the effect) together with the whole chain of promise  *)
(* continuations it triggers, up to the next await of a network request.   *)
(***************************************************************************)
EXTENDS Integers, Sequences, FiniteSets, TLC

(***************************************************************************)
(* JavaScript numbers.  A number is NaN, +/-Infinity or a finite value;    *)
(* finite values are kept as reduced fractions n/d (d > 0), so the model   *)
(* computes the arithmetic exactly and does not model IEEE-754 rounding.   *)
(***************************************************************************)
Abs(x) == IF x < 0 THEN -x ELSE x

Sign(x) == IF x < 0 THEN -1 ELSE IF x > 0 THEN 1 ELSE 0

RECURSIVE GCD(_, _)
GCD(a, b) == IF b = 0 THEN a ELSE GCD(b, a % b)

NaN == [k |-> "nan", n |-> 0, d |-> 1]

Infinity(sign) == [k |-> "inf", n |-> sign, d |-> 1]

Rat(num, den) ==
  LET s == IF den < 0 THEN -1 ELSE 1
      g == GCD(Abs(num), Abs(den))
  IN  [k |-> "num", n |-> (s * num) \div g, d |-> (s * den) \div g]

IsNaN(a) == a.k = "nan"

IsZero(a) == a.k = "num" /\ a.n = 0

\* Number.isFinite(raw), line 80
NumberIsFinite(a) == a.k = "num"

\* truthiness of a number (the test `prev ?` of line 43): false for 0 and NaN
Truthy(a) == ~IsNaN(a) /\ ~IsZero(a)

\* a - b
JSub(a, b) ==
  IF IsNaN(a) \/ IsNaN(b) THEN NaN
  ELSE IF a.k = "inf" /\ b.k = "inf"
         THEN IF a.n = b.n THEN NaN ELSE a
  ELSE IF a.k = "inf" THEN a
  ELSE IF b.k = "inf" THEN Infinity(-b.n)
  ELSE Rat(a.n * b.d - b.n * a.d, a.d * b.d)

\* a * b
JMul(a, b) ==
  IF IsNaN(a) \/ IsNaN(b) THEN NaN
  ELSE IF a.k = "inf" \/ b.k = "inf"
         THEN IF IsZero(a) \/ IsZero(b) THEN NaN
              ELSE Infinity(Sign(a.n) * Sign(b.n))
  ELSE Rat(a.n * b.n, a.d * b.d)

\* a / b (the model has no negative zero: x / 0 takes the sign of x)
JDiv(a, b) ==
  IF IsNaN(a) \/ IsNaN(b) THEN NaN
  ELSE IF a.k = "inf" /\ b.k = "inf" THEN NaN
  ELSE IF a.k = "inf" THEN Infinity(a.n * (IF Sign(b.n) < 0 THEN -1 ELSE 1))
  ELSE IF b.k = "inf" THEN Rat(0, 1)
  ELSE IF b.n = 0
         THEN IF a.n = 0 THEN NaN ELSE Infinity(Sign(a.n))
  ELSE Rat(a.n * b.d, a.d * b.n)

(***************************************************************************)
(* Strings are sequences of one-character strings, so that trim() and the  *)
(* string-to-number conversion are computed character by character.        *)
(***************************************************************************)
Digits == <<"0", "1", "2", "3", "4", "5", "6", "7", "8", "9">>

IsDigit(c) == \E i \in 1..10 : Digits[i] = c

DigitVal(c) == (CHOOSE i \in 1..10 : Digits[i] = c) - 1

RECURSIVE DigitsVal(_)
DigitsVal(s) ==
  IF s = <<>> THEN 0
  ELSE 10 * DigitsVal(SubSeq(s, 1, Len(s) - 1)) + DigitVal(s[Len(s)])

RECURSIVE Pow10(_)
Pow10(e) == IF e = 0 THEN 1 ELSE 10 * Pow10(e - 1)

AllDigits(s) == \A i \in 1..Len(s) : IsDigit(s[i])

\* String.prototype.trim (line 31), for the space character
RECURSIVE TrimLeft(_)
TrimLeft(s) == IF s # <<>> /\ Head(s) = " " THEN TrimLeft(Tail(s)) ELSE s

RECURSIVE TrimRight(_)
TrimRight(s) ==
  IF s # <<>> /\ s[Len(s)] = " " THEN TrimRight(SubSeq(s, 1, Len(s) - 1)) ELSE s

Trim(s) == TrimRight(TrimLeft(s))

\* Number(string): "" and blanks give 0, an unsigned decimal literal its
\* value, anything else NaN (signs, exponents and hex are not in the inputs)
StringToNumber(str) ==
  LET s    == Trim(str)
      dots == {i \in 1..Len(s) : s[i] = "."}
  IN  IF s = <<>> THEN Rat(0, 1)
      ELSE IF dots = {}
             THEN IF AllDigits(s) THEN Rat(DigitsVal(s), 1) ELSE NaN
      ELSE IF Cardinality(dots) > 1 THEN NaN
      ELSE LET p    == CHOOSE i \in dots : TRUE
               ip   == SubSeq(s, 1, p - 1)
               fp   == SubSeq(s, p + 1, Len(s))
           IN  IF AllDigits(ip) /\ AllDigits(fp) /\ Len(ip) + Len(fp) > 0
                 THEN Rat(DigitsVal(ip \o fp), Pow10(Len(fp)))
                 ELSE NaN

(***************************************************************************)
(* JSON values found in the fields of a response body.                     *)
(***************************************************************************)
JUndefined == [t |-> "undefined", num |-> NaN, str |-> <<>>]

JNull == [t |-> "null", num |-> NaN, str |-> <<>>]

JNum(x) == [t |-> "number", num |-> x, str |-> <<>>]

JStr(s) == [t |-> "string", num |-> NaN, str |-> s]

\* Number(v), lines 41, 42, 57, 58, 79
Number(v) ==
  CASE v.t = "undefined" -> NaN
    [] v.t = "null"      -> Rat(0, 1)
    [] v.t = "number"    -> v.num
    [] v.t = "string"    -> StringToNumber(v.str)

(***************************************************************************)
(* Bounds of the model.                                                    *)
(***************************************************************************)
\* how many of the tracked symbols (a prefix of the list of line 18) are used
NumSymbols == 2

\* how many times the effect of line 33 fires (mount, StrictMode's second
\* mount, fast refresh); nothing in the effect cancels an earlier run
MaxRuns == 1

(***************************************************************************)
(* Constants of the program.                                               *)
(***************************************************************************)
TrackedSymbols == <<"AAPL", "MSFT", "GOOGL", "AMZN">>

SYMBOLS == SubSeq(TrackedSymbols, 1, NumSymbols)

Slots == 1..Len(SYMBOLS)

Runs == 1..MaxRuns

FALLBACK ==
  [sym \in {"AAPL", "MSFT", "GOOGL", "AMZN"} |->
     CASE sym = "AAPL"  -> Rat(22848, 100)
       [] sym = "MSFT"  -> Rat(45212, 100)
       [] sym = "GOOGL" -> Rat(16539, 100)
       [] sym = "AMZN"  -> Rat(18277, 100)]

\* FALLBACK[sym] ?? 0
FallbackPrice(sym) ==
  IF sym \in DOMAIN FALLBACK THEN FALLBACK[sym] ELSE Rat(0, 1)

Quote(sym, price, change) == [symbol |-> sym, price |-> price, change |-> change]

DEMO_ALL ==
  << Quote("AAPL",  Rat(22848, 100), Rat(87, 100)),
     Quote("MSFT",  Rat(45212, 100), Rat(-32, 100)),
     Quote("GOOGL", Rat(16539, 100), Rat(41, 100)),
     Quote("AMZN",  Rat(18277, 100), Rat(112, 100)) >>

\* setStocks(DEMO) stores the whole list; the model tracks its first NumSymbols
DEMO == SubSeq(DEMO_ALL, 1, NumSymbols)

NoteTwelveData == "TwelveData demo in use; missing quotes filled with sample prices."

NoteDemo == "Using local demo data (APIs unavailable)."

(***************************************************************************)
(* HTTP responses.  axios.get either rejects (network error, status        *)
(* outside 2xx) or fulfils with the parsed body in `data`.                 *)
(***************************************************************************)
Rejected == [ok |-> FALSE]

Fulfilled(body) == [ok |-> TRUE, data |-> body]

NullBody == [t |-> "null"]

\* --- Finnhub /quote: { c: current, pc: previous close } ---
FinnhubBody(c, pc) == [t |-> "object", c |-> c, pc |-> pc]

FinnhubResponses ==
  { Rejected,
    Fulfilled(NullBody),
    Fulfilled(FinnhubBody(JNum(Rat(110, 1)), JNum(Rat(100, 1)))),
    Fulfilled(FinnhubBody(JNum(Rat(9050, 100)), JNum(Rat(0, 1)))),
    Fulfilled(FinnhubBody(JUndefined, JNum(Rat(100, 1)))) }

\* the division without the guard on prev
ChangePercent_Unguarded(price, prev) ==
  JMul(JDiv(JSub(price, prev), prev), Rat(100, 1))

\* line 43
ChangePercent(price, prev) ==
  IF Truthy(prev) THEN JMul(JDiv(JSub(price, prev), prev), Rat(100, 1))
  ELSE Rat(0, 1)

\* the callback tolerating a failed request the way TwelveData's does
FinnhubSymbol_Tolerant(sym, resp) ==
  IF ~resp.ok \/ resp.data.t = "null"
    THEN [threw |-> FALSE, value |-> Quote(sym, FallbackPrice(sym), Rat(0, 1))]
    ELSE LET price == Number(resp.data.c)
             prev  == Number(resp.data.pc)
         IN  [threw |-> FALSE,
              value |-> Quote(sym, price, ChangePercent(price, prev))]

\* the async callback of lines 37-45 for one symbol: it throws when the
\* request rejects or when `data` is null (reading data.c)
FinnhubSymbol(sym, resp) ==
  IF ~resp.ok \/ resp.data.t = "null"
    THEN [threw |-> TRUE, value |-> Quote(sym, NaN, NaN)]
    ELSE LET price == Number(resp.data.c)
             prev  == Number(resp.data.pc)
         IN  [threw |-> FALSE,
              value |-> Quote(sym, price, ChangePercent(price, prev))]

\* --- FMP /quote/<list>: an array of { symbol, price, changesPercentage } ---
FMPEntry(sym, price, chg) ==
  [t |-> "object", symbol |-> sym, price |-> price, changesPercentage |-> chg]

NullEntry == [t |-> "null"]

FMPArray(items) == [t |-> "array", items |-> items]

\* e.g. { "Error Message": "Invalid API KEY." }
FMPErrorObject == [t |-> "object", items |-> <<>>]

GoodEntry(sym) == FMPEntry(sym, JNum(Rat(120, 1)), JNum(Rat(3, 2)))

GoodItems == [i \in Slots |-> GoodEntry(SYMBOLS[i])]

Reverse(s) == [i \in 1..Len(s) |-> s[Len(s) + 1 - i]]

FMPResponses ==
  { Rejected,
    Fulfilled(FMPErrorObject),
    Fulfilled(FMPArray(GoodItems)),
    Fulfilled(FMPArray(<<>>)),
    Fulfilled(FMPArray(SubSeq(GoodItems, 1, Len(GoodItems) - 1))),
    Fulfilled(FMPArray(Reverse(GoodItems))),
    Fulfilled(FMPArray([GoodItems EXCEPT ![Len(GoodItems)] = GoodItems[1]])),
    Fulfilled(FMPArray(Append(GoodItems, GoodEntry("TSLA")))),
    Fulfilled(FMPArray([GoodItems EXCEPT ![1] = NullEntry])),
    Fulfilled(FMPArray([GoodItems EXCEPT
       ![1] = FMPEntry(SYMBOLS[1], JStr(<<"n", "/", "a">>), JUndefined)])) }

\* lines 52-61: data.map throws unless data is an array, and the callback
\* throws on a null entry (reading d.symbol)
FMPMap(resp) ==
  IF ~resp.ok \/ resp.data.t # "array"
       \/ (\E i \in 1..Len(resp.data.items) : resp.data.items[i].t = "null")
    THEN [threw |-> TRUE, value |-> <<>>]
    ELSE [threw |-> FALSE,
          value |-> [i \in 1..Len(resp.data.items) |->
                       LET d == resp.data.items[i]
                       IN  Quote(d.symbol, Number(d.price),
                                 Number(d.changesPercentage))]]

\* --- TwelveData /price: { price: "228.48" } ---
TwelveDataBody(price) == [t |-> "object", price |-> price]

TwelveDataResponses ==
  { Rejected,
    Fulfilled(NullBody),
    Fulfilled(TwelveDataBody(JUndefined)),
    Fulfilled(TwelveDataBody(JNum(Infinity(1)))),
    Fulfilled(TwelveDataBody(JStr(<<"2", "0", "0", ".", "5">>))) }

\* data?.price
OptionalPrice(data) == IF data.t = "null" THEN JUndefined ELSE data.price

\* the callback without the catch of line 82: a rejection propagates
TwelveDataSymbol_NoCatch(sym, resp) ==
  IF resp.ok
    THEN LET raw   == Number(OptionalPrice(resp.data))
             price == IF NumberIsFinite(raw) THEN raw ELSE FallbackPrice(sym)
         IN  [threw |-> FALSE, value |-> Quote(sym, price, Rat(0, 1))]
    ELSE [threw |-> TRUE, value |-> Quote(sym, NaN, NaN)]

\* the callback throwing on a price that is not finite instead of line 80
TwelveDataSymbol_NoFallback(sym, resp) ==
  IF resp.ok
    THEN LET raw == Number(OptionalPrice(resp.data))
         IN  [threw |-> ~NumberIsFinite(raw), value |-> Quote(sym, raw, Rat(0, 1))]
    ELSE [threw |-> FALSE,
          value |-> Quote(sym, FallbackPrice(sym), Rat(0, 1))]

\* the async callback of lines 74-85 for one symbol; the catch of line 82
\* turns a rejection into the fallback quote, so the callback never throws
TwelveDataSymbol(sym, resp) ==
  IF resp.ok
    THEN LET raw   == Number(OptionalPrice(resp.data))
             price == IF NumberIsFinite(raw) THEN raw ELSE FallbackPrice(sym)
         IN  [threw |-> FALSE, value |-> Quote(sym, price, Rat(0, 1))]
    ELSE [threw |-> FALSE,
          value |-> Quote(sym, FallbackPrice(sym), Rat(0, 1))]

(***************************************************************************)
(* State.                                                                  *)
(***************************************************************************)
VARIABLES
  stocks,      \* useState<Stock[]>([]), line 21
  loading,     \* useState(true), line 22
  error,       \* useState(""), line 23
  note,        \* useState(""), line 24
  dataSource,  \* useState("Demo"), lines 26-28
  env,         \* process.env.REACT_APP_FINNHUB_KEY, line 31
  pc,          \* per run: "idle", or the adapter run() awaits, or "done"
  escaped,     \* per run: the promise returned by run() rejected
  calls,       \* per run: axios.get calls made so far, per provider
  inflightA,   \* per run: slots whose Finnhub request is unanswered
  abandonedA,  \* per run: how many Finnhub requests are unanswered although
               \*   Promise.all has rejected already
  failedA,     \* per run: a Finnhub request was rejected or answered
               \*   without a body
  resA,        \* per run: the values Promise.all has collected (line 36)
  inflightB,   \* per run: the FMP request is unanswered
  resB,        \* per run: `mapped` of line 55
  inflightC,   \* per run: slots whose TwelveData request is unanswered
  resC,        \* per run: the values Promise.all has collected (line 73)
  rejectedC,   \* per run: slots whose TwelveData request rejected
  lost,        \* requests the network will never answer
  probe        \* input and output of a single call of the callback of line 37

vars == << stocks, loading, error, note, dataSource, env, pc, escaped, calls,
           inflightA, abandonedA, failedA, resA, inflightB, resB, inflightC,
           resC, rejectedC, lost, probe >>

\* the environment variable is absent or a string
EnvValues ==
  { [set |-> FALSE, value |-> <<>>],
    [set |-> TRUE,  value |-> <<>>],
    [set |-> TRUE,  value |-> <<" ">>],
    [set |-> TRUE,  value |-> <<" ", "k", " ">>] }

\* the key without trim()
API_KEY_Untrimmed == IF env.set THEN env.value ELSE <<>>

\* line 31: (process.env.REACT_APP_FINNHUB_KEY || "").trim()
API_KEY == Trim(IF env.set /\ env.value # <<>> THEN env.value ELSE <<>>)

NoProbe == [used |-> FALSE]

EmptySlots == [i \in Slots |-> <<>>]

\* the array Promise.all resolves to: the value of slot i at position i
Values(slots) == [i \in Slots |-> slots[i][1]]

AllFilled(slots) == \A i \in Slots : slots[i] # <<>>

\* the values collected in the order in which the promises settle
Settle_InArrivalOrder(slots, i, v) ==
  [slots EXCEPT ![CHOOSE j \in Slots :
                    slots[j] = <<>> /\ \A k \in 1..(j - 1) : slots[k] # <<>>]
                = <<v>>]

\* Promise.all (lines 36, 73) stores the value of the i-th promise at index i
Settle(slots, i, v) == [slots EXCEPT ![i] = <<v>>]

\* the request was rejected, or fulfilled with `data` = null
NoAnswer(resp) == ~resp.ok \/ resp.data.t = "null"

Init ==
  /\ stocks = <<>>
  /\ loading = TRUE
  /\ error = ""
  /\ note = ""
  /\ dataSource = "Demo"
  /\ env \in EnvValues
  /\ pc = [r \in Runs |-> "idle"]
  /\ escaped = [r \in Runs |-> FALSE]
  /\ calls = [r \in Runs |-> [A |-> 0, B |-> 0, C |-> 0]]
  /\ inflightA = [r \in Runs |-> {}]
  /\ abandonedA = [r \in Runs |-> 0]
  /\ failedA = [r \in Runs |-> FALSE]
  /\ resA = [r \in Runs |-> EmptySlots]
  /\ inflightB = [r \in Runs |-> FALSE]
  /\ resB = [r \in Runs |-> <<>>]
  /\ inflightC = [r \in Runs |-> {}]
  /\ resC = [r \in Runs |-> EmptySlots]
  /\ rejectedC = [r \in Runs |-> {}]
  /\ lost = {}
  /\ probe = NoProbe

(***************************************************************************)
(* The adapters' calls to axios.get.                                       *)
(***************************************************************************)
\* the providers raced: the FMP request goes out together with Finnhub's
StartFinnhub_Racing(r) ==
  /\ inflightA' = [inflightA EXCEPT ![r] = Slots]
  /\ calls' = [calls EXCEPT ![r].A = @ + Len(SYMBOLS), ![r].B = @ + 1]
  /\ pc' = [pc EXCEPT ![r] = "A"]

\* lines 36-40: the map issues one request per symbol before the first await
StartFinnhub(r) ==
  /\ inflightA' = [inflightA EXCEPT ![r] = Slots]
  /\ calls' = [calls EXCEPT ![r].A = @ + Len(SYMBOLS)]
  /\ pc' = [pc EXCEPT ![r] = "A"]

\* lines 52-54: one batched request
StartFMP(r) ==
  /\ inflightB' = [inflightB EXCEPT ![r] = TRUE]
  /\ calls' = [calls EXCEPT ![r].B = @ + 1]
  /\ pc' = [pc EXCEPT ![r] = "B"]

\* lines 73-78: one request per symbol
StartTwelveData(r) ==
  /\ inflightC' = [inflightC EXCEPT ![r] = Slots]
  /\ calls' = [calls EXCEPT ![r].C = @ + Len(SYMBOLS)]
  /\ pc' = [pc EXCEPT ![r] = "C"]

(***************************************************************************)
(* run(), lines 100-124: what follows the settlement of each adapter.      *)
(***************************************************************************)
\* lines 47-48, 106, 122
FinnhubSucceeds(r, res) ==
  /\ dataSource' = "Finnhub"
  /\ stocks' = res
  /\ loading' = FALSE
  /\ pc' = [pc EXCEPT ![r] = "done"]
  /\ UNCHANGED << error, note, calls, escaped >>

\* the first catch also reporting the failure through setError
CatchFinnhub_SetsError(r) ==
  /\ StartFMP(r)
  /\ error' = "Finnhub unavailable"
  /\ UNCHANGED << stocks, loading, note, dataSource, escaped >>

\* lines 107-109: the first catch calls fetchWithFMP
CatchFinnhub(r) ==
  /\ StartFMP(r)
  /\ UNCHANGED << stocks, loading, error, note, dataSource, escaped >>

\* fetchWithFMP without its setDataSource("FMP")
FMPSucceeds_NoSource(r, res) ==
  /\ stocks' = res
  /\ loading' = FALSE
  /\ pc' = [pc EXCEPT ![r] = "done"]
  /\ UNCHANGED << dataSource, error, note, calls, escaped >>

\* lines 60-61, 110, 122
FMPSucceeds(r, res) ==
  /\ dataSource' = "FMP"
  /\ stocks' = res
  /\ loading' = FALSE
  /\ pc' = [pc EXCEPT ![r] = "done"]
  /\ UNCHANGED << error, note, calls, escaped >>

\* fetchWithFMP setting its name before the list is mapped: the name stays
\* when the mapping throws
CatchFMP_SourceSetEarly(r) ==
  /\ StartTwelveData(r)
  /\ dataSource' = "FMP"
  /\ UNCHANGED << stocks, loading, error, note, escaped >>

\* run() without the second catch: the failure of fetchWithFMP leaves run()
\* through the finally of line 121
CatchFMP_Rethrows(r) ==
  /\ escaped' = [escaped EXCEPT ![r] = TRUE]
  /\ loading' = FALSE
  /\ pc' = [pc EXCEPT ![r] = "done"]
  /\ UNCHANGED << stocks, error, note, dataSource, calls, inflightC >>

\* lines 111-113: the second catch calls fetchWithTwelveData
CatchFMP(r) ==
  /\ StartTwelveData(r)
  /\ UNCHANGED << stocks, loading, error, note, dataSource, escaped >>

\* fetchWithTwelveData setting the text of line 118 instead of line 89's
TwelveDataSucceeds_DemoNote(r, res) ==
  /\ dataSource' = "TwelveData"
  /\ note' = NoteDemo
  /\ stocks' = res
  /\ loading' = FALSE
  /\ pc' = [pc EXCEPT ![r] = "done"]
  /\ UNCHANGED << error, calls, escaped >>

\* fetchWithTwelveData without the setNote of line 89
TwelveDataSucceeds_NoNote(r, res) ==
  /\ dataSource' = "TwelveData"
  /\ stocks' = res
  /\ loading' = FALSE
  /\ pc' = [pc EXCEPT ![r] = "done"]
  /\ UNCHANGED << note, error, calls, escaped >>

\* lines 88-90, 114, 122
TwelveDataSucceeds(r, res) ==
  /\ dataSource' = "TwelveData"
  /\ note' = NoteTwelveData
  /\ stocks' = res
  /\ loading' = FALSE
  /\ pc' = [pc EXCEPT ![r] = "done"]
  /\ UNCHANGED << error, calls, escaped >>

\* lines 115-119, 122: the third catch stores the demo data
CatchTwelveData(r) ==
  /\ stocks' = DEMO
  /\ dataSource' = "Demo"
  /\ note' = NoteDemo
  /\ loading' = FALSE
  /\ pc' = [pc EXCEPT ![r] = "done"]
  /\ UNCHANGED << error, calls, escaped >>

(***************************************************************************)
(* Actions.                                                                *)
(***************************************************************************)
\* The effect fires (lines 33, 126) and run() executes up to its first
\* await of the network: lines 101-105, and line 35 when there is no key.
StartRun(r) ==
  /\ pc[r] = "idle"
  /\ \A q \in 1..(r - 1) : pc[q] # "idle"
  /\ loading' = TRUE
  /\ error' = ""
  /\ note' = ""
  /\ UNCHANGED << stocks, dataSource, env, escaped, abandonedA, failedA,
                  resA, resB, inflightC, resC, rejectedC, lost, probe >>
  /\ IF API_KEY = <<>>
       THEN StartFMP(r) /\ UNCHANGED inflightA
       ELSE StartFinnhub(r) /\ UNCHANGED inflightB

\* The response to the Finnhub request of slot i arrives while Promise.all
\* is pending.
FinnhubResponse(r, i, resp) ==
  /\ pc[r] = "A"
  /\ i \in inflightA[r]
  /\ <<r, "A", i>> \notin lost
  /\ UNCHANGED << env, resB, inflightC, resC, rejectedC, lost, probe >>
  /\ failedA' = [failedA EXCEPT ![r] = @ \/ NoAnswer(resp)]
  /\ LET out    == FinnhubSymbol(SYMBOLS[i], resp)
         filled == Settle(resA[r], i, out.value)
     IN  IF out.threw
           \* Promise.all rejects with the first rejection (line 36); the
           \* other requests stay in flight and their answers are dropped
           THEN /\ inflightA' = [inflightA EXCEPT ![r] = {}]
                /\ abandonedA' = [abandonedA EXCEPT ![r] =
                                   Cardinality({j \in inflightA[r] \ {i} :
                                                  <<r, "A", j>> \notin lost})]
                /\ resA' = [resA EXCEPT ![r] = EmptySlots]
                /\ CatchFinnhub(r)
         ELSE IF AllFilled(filled)
           THEN /\ inflightA' = [inflightA EXCEPT ![r] = @ \ {i}]
                /\ resA' = [resA EXCEPT ![r] = filled]
                /\ FinnhubSucceeds(r, Values(filled))
                /\ UNCHANGED << inflightB, abandonedA >>
         ELSE /\ inflightA' = [inflightA EXCEPT ![r] = @ \ {i}]
              /\ resA' = [resA EXCEPT ![r] = filled]
              /\ UNCHANGED << stocks, loading, error, note, dataSource, pc,
                              escaped, calls, inflightB, abandonedA >>

\* The response to an abandoned Finnhub request arrives: the callback of
\* lines 37-45 settles a promise nobody awaits, and no state changes.
LateFinnhubResponse(r) ==
  /\ abandonedA[r] > 0
  /\ abandonedA' = [abandonedA EXCEPT ![r] = @ - 1]
  /\ UNCHANGED << stocks, loading, error, note, dataSource, env, pc,
                  escaped, calls, inflightA, failedA, resA, inflightB, resB,
                  inflightC, resC, rejectedC, lost, probe >>

\* The response to the FMP request arrives.
FMPResponse(r, resp) ==
  /\ inflightB[r]
  /\ <<r, "B", 1>> \notin lost
  /\ inflightB' = [inflightB EXCEPT ![r] = FALSE]
  /\ UNCHANGED << env, inflightA, abandonedA, failedA, resA, resC,
                  rejectedC, lost, probe >>
  /\ LET out == FMPMap(resp)
     IN  IF out.threw
           THEN CatchFMP(r) /\ UNCHANGED resB
           ELSE /\ resB' = [resB EXCEPT ![r] = out.value]
                /\ FMPSucceeds(r, out.value)
                /\ UNCHANGED inflightC

\* The response to the TwelveData request of slot i arrives.
TwelveDataResponse(r, i, resp) ==
  /\ i \in inflightC[r]
  /\ <<r, "C", i>> \notin lost
  /\ inflightC' = [inflightC EXCEPT ![r] = @ \ {i}]
  /\ rejectedC' = [rejectedC EXCEPT ![r] = IF resp.ok THEN @ ELSE @ \cup {i}]
  /\ UNCHANGED << env, inflightA, abandonedA, failedA, resA, inflightB,
                  resB, lost, probe >>
  /\ LET out    == TwelveDataSymbol(SYMBOLS[i], resp)
         filled == Settle(resC[r], i, out.value)
     IN  IF pc[r] # "C"
           THEN UNCHANGED << stocks, loading, error, note, dataSource, pc,
                             escaped, calls, resC >>
         ELSE IF out.threw
           THEN /\ resC' = [resC EXCEPT ![r] = EmptySlots]
                /\ CatchTwelveData(r)
         ELSE IF AllFilled(filled)
           THEN /\ resC' = [resC EXCEPT ![r] = filled]
                /\ TwelveDataSucceeds(r, Values(filled))
         ELSE /\ resC' = [resC EXCEPT ![r] = filled]
              /\ UNCHANGED << stocks, loading, error, note, dataSource, pc,
                              escaped, calls >>

Next ==
  \/ \E r \in Runs : StartRun(r)
  \/ \E r \in Runs, i \in Slots, resp \in FinnhubResponses :
       FinnhubResponse(r, i, resp)
  \/ \E r \in Runs : LateFinnhubResponse(r)
  \/ \E r \in Runs, resp \in FMPResponses : FMPResponse(r, resp)
  \/ \E r \in Runs, i \in Slots, resp \in TwelveDataResponses :
       TwelveDataResponse(r, i, resp)

Spec == Init /\ [][Next]_vars

(***************************************************************************)
(* A network that may never answer.  axios.get is called without a timeout *)
(* (lines 38-40, 52-54, 76-78), so nothing in the program ends the wait    *)
(* for a lost response.                                                    *)
(***************************************************************************)
InFlight(r, ad, i) ==
  CASE ad = "A" -> i \in inflightA[r]
    [] ad = "B" -> i = 1 /\ inflightB[r]
    [] ad = "C" -> i \in inflightC[r]

NetworkLoses(r, ad, i) ==
  /\ InFlight(r, ad, i)
  /\ <<r, ad, i>> \notin lost
  /\ lost' = lost \cup {<<r, ad, i>>}
  /\ UNCHANGED << stocks, loading, error, note, dataSource, env, pc, escaped,
                  calls, inflightA, abandonedA, failedA, resA, inflightB,
                  resB, inflightC, resC, rejectedC, probe >>

LossyNext ==
  \/ Next
  \/ \E r \in Runs, ad \in {"A", "B", "C"}, i \in Slots : NetworkLoses(r, ad, i)

\* every step of the program that can be taken is taken eventually; whether
\* the network loses a request is left to the network
LossySpec == Init /\ [][LossyNext]_vars /\ WF_vars(Next)

(***************************************************************************)
(* The effect firing once more while a run is in flight.  The effect of    *)
(* lines 33-127 returns no cleanup and run() takes no cancellation token,  *)
(* so a run started by an earlier firing goes on to its end.               *)
(***************************************************************************)
OverlapRuns == 1..(MaxRuns + 1)

OverlapInit ==
  /\ stocks = <<>>
  /\ loading = TRUE
  /\ error = ""
  /\ note = ""
  /\ dataSource = "Demo"
  /\ env \in EnvValues
  /\ pc = [r \in OverlapRuns |-> "idle"]
  /\ escaped = [r \in OverlapRuns |-> FALSE]
  /\ calls = [r \in OverlapRuns |-> [A |-> 0, B |-> 0, C |-> 0]]
  /\ inflightA = [r \in OverlapRuns |-> {}]
  /\ abandonedA = [r \in OverlapRuns |-> 0]
  /\ failedA = [r \in OverlapRuns |-> FALSE]
  /\ resA = [r \in OverlapRuns |-> EmptySlots]
  /\ inflightB = [r \in OverlapRuns |-> FALSE]
  /\ resB = [r \in OverlapRuns |-> <<>>]
  /\ inflightC = [r \in OverlapRuns |-> {}]
  /\ resC = [r \in OverlapRuns |-> EmptySlots]
  /\ rejectedC = [r \in OverlapRuns |-> {}]
  /\ lost = {}
  /\ probe = NoProbe

OverlapNext ==
  \/ \E r \in OverlapRuns : StartRun(r)
  \/ \E r \in OverlapRuns, i \in Slots, resp \in FinnhubResponses :
       FinnhubResponse(r, i, resp)
  \/ \E r \in OverlapRuns : LateFinnhubResponse(r)
  \/ \E r \in OverlapRuns, resp \in FMPResponses : FMPResponse(r, resp)
  \/ \E r \in OverlapRuns, i \in Slots, resp \in TwelveDataResponses :
       TwelveDataResponse(r, i, resp)

OverlapSpec == OverlapInit /\ [][OverlapNext]_vars

(***************************************************************************)
(* The callback of lines 37-45 applied to one response.                    *)
(***************************************************************************)
ProbeValues ==
  { JNum(Rat(110, 1)), JNum(Rat(100, 1)), JNum(Rat(0, 1)), JNum(Rat(9050, 100)),
    JNum(Rat(3, 1)), JStr(<<"1", "1", "0">>), JStr(<<"0", ".", "0">>),
    JStr(<<"n", "/", "a">>), JUndefined, JNull }

ProbeInit ==
  /\ stocks = <<>>
  /\ loading = TRUE
  /\ error = ""
  /\ note = ""
  /\ dataSource = "Demo"
  /\ env \in EnvValues
  /\ pc = [r \in Runs |-> "idle"]
  /\ escaped = [r \in Runs |-> FALSE]
  /\ calls = [r \in Runs |-> [A |-> 0, B |-> 0, C |-> 0]]
  /\ inflightA = [r \in Runs |-> {}]
  /\ abandonedA = [r \in Runs |-> 0]
  /\ failedA = [r \in Runs |-> FALSE]
  /\ resA = [r \in Runs |-> EmptySlots]
  /\ inflightB = [r \in Runs |-> FALSE]
  /\ resB = [r \in Runs |-> <<>>]
  /\ inflightC = [r \in Runs |-> {}]
  /\ resC = [r \in Runs |-> EmptySlots]
  /\ rejectedC = [r \in Runs |-> {}]
  /\ lost = {}
  /\ \E c \in ProbeValues, p \in ProbeValues :
       probe = [used |-> TRUE, called |-> FALSE, sym |-> SYMBOLS[1],
                resp |-> Fulfilled(FinnhubBody(c, p)),
                out |-> [threw |-> FALSE, value |-> Quote("", NaN, NaN)]]

ProbeCall ==
  /\ probe.used
  /\ ~probe.called
  /\ probe' = [probe EXCEPT !.called = TRUE,
                            !.out = FinnhubSymbol(probe.sym, probe.resp)]
  /\ UNCHANGED << stocks, loading, error, note, dataSource, env, pc, escaped,
                  calls, inflightA, abandonedA, failedA, resA, inflightB,
                  resB, inflightC, resC, rejectedC, lost >>

ProbeSpec == ProbeInit /\ [][ProbeCall]_vars

(***************************************************************************)
(* Properties.                                                             *)
(***************************************************************************)
Zero == Rat(0, 1)

\* the moves of run() between the adapters it awaits
CascadeMoves ==
  { <<"idle", "A">>, <<"idle", "B">>, <<"A", "B">>, <<"A", "done">>,
    <<"B", "C">>, <<"B", "done">>, <<"C", "done">> }

\* C1: no error escapes run(): whatever the providers answer, every step of a
\* run leaves its promise unrejected, and every failure of an adapter moves the
\* run to the next adapter or to its end.
C1_ErrorsAbsorbed ==
  [][\A r \in Runs :
       /\ ~escaped'[r]
       /\ pc'[r] # pc[r] => <<pc[r], pc'[r]>> \in CascadeMoves]_vars

\* a run that met a failure in each of the three providers and ended
C1_Witness ==
  \E r \in Runs :
    /\ pc[r] = "done"
    /\ calls[r].A > 0 /\ calls[r].B > 0 /\ calls[r].C > 0
    /\ rejectedC[r] # {}
    /\ ~escaped[r]
    /\ ~loading

\* C2: once a run has completed, stocks holds one quote per symbol of SYMBOLS,
\* in the order of SYMBOLS.
C2_OneQuotePerSymbol ==
  (\E r \in Runs : pc[r] = "done") =>
    /\ Len(stocks) = Len(SYMBOLS)
    /\ \A i \in Slots : stocks[i].symbol = SYMBOLS[i]

\* C3: when fetchWithFinnhub succeeds the run ends with dataSource = Finnhub
\* and stocks = its quotes, having made no FMP or TwelveData request; a request
\* of a later adapter is made only once the earlier adapter's call has failed,
\* and a finished run makes no request.
C3_FinnhubFirst ==
  [][\A r \in Runs :
       /\ (pc[r] = "A" /\ pc'[r] = "done") =>
            /\ dataSource' = "Finnhub"
            /\ stocks' = Values(resA'[r])
            /\ \A i \in Slots : stocks'[i].symbol = SYMBOLS[i]
            /\ calls'[r].B = 0 /\ calls'[r].C = 0
       /\ (pc'[r] \in {"idle", "A"}) => (calls'[r].B = 0 /\ calls'[r].C = 0)
       /\ (pc'[r] = "B") => (calls'[r].C = 0)
       /\ (calls'[r].B > calls[r].B) => (pc[r] \in {"idle", "A"} /\ pc'[r] = "B")
       /\ (calls'[r].C > calls[r].C) => (pc[r] = "B" /\ pc'[r] = "C")
       /\ (pc[r] = "done") => (calls'[r] = calls[r])]_vars

\* a run that Finnhub answered in full
C3_Witness ==
  \E r \in Runs :
    /\ pc[r] = "done"
    /\ dataSource = "Finnhub"
    /\ calls[r] = [A |-> Len(SYMBOLS), B |-> 0, C |-> 0]
    /\ stocks = Values(resA[r])

\* C4: when fetchWithFinnhub fails and fetchWithFMP succeeds, the run ends with
\* dataSource = FMP and stocks = the mapped quotes, and TwelveData is not called.
C4_FMPSecond ==
  [][\A r \in Runs :
       (pc[r] = "B" /\ pc'[r] = "done") =>
         /\ dataSource' = "FMP"
         /\ stocks' = resB'[r]
         /\ calls'[r].B = 1
         /\ calls'[r].C = 0]_vars

\* a run without a key that FMP answered
C4_Witness ==
  \E r \in Runs :
    /\ pc[r] = "done"
    /\ dataSource = "FMP"
    /\ API_KEY = <<>>
    /\ calls[r] = [A |-> 0, B |-> 1, C |-> 0]
    /\ Len(stocks) = Len(SYMBOLS)
    /\ stocks[1].price = Rat(120, 1)

C6_ErrorChannelEmpty == error = ""

\* a degraded result is on display and error is empty
C6_Witness ==
  /\ \E r \in Runs : pc[r] = "done" /\ rejectedC[r] # {}
  /\ dataSource = "TwelveData"
  /\ note # ""
  /\ error = ""

\* C7: every run that has started finishes, also when the network never
\* answers one of its requests.
C7_EveryRunFinishes ==
  \A r \in Runs : (pc[r] \in {"A", "B", "C"}) ~> (pc[r] = "done" /\ ~loading)

\* C8: in fetchWithTwelveData the failure of the request of a slot stores the
\* fallback price of its symbol with change 0, leaves the other slots as they
\* are, and does not fail the adapter: the run stays in TwelveData or ends
\* with its quotes.
C8_TwelveDataTolerates ==
  [][\A r \in Runs : \A i \in rejectedC'[r] \ rejectedC[r] :
       /\ resC'[r][i] = << Quote(SYMBOLS[i], DEMO[i].price, Zero) >>
       /\ \A j \in Slots \ {i} : resC'[r][j] = resC[r][j]
       /\ pc'[r] \in {"C", "done"}
       /\ pc'[r] = "done" =>
            /\ dataSource' = "TwelveData"
            /\ stocks' = Values(resC'[r])]_vars

\* a TwelveData result with one slot failed and another answered with a price
C8_Witness ==
  \E r \in Runs : \E i, j \in Slots :
    /\ pc[r] = "done"
    /\ dataSource = "TwelveData"
    /\ i \in rejectedC[r]
    /\ j \notin rejectedC[r]
    /\ stocks[i] = Quote(SYMBOLS[i], DEMO[i].price, Zero)
    /\ stocks[j] = Quote(SYMBOLS[j], Rat(401, 2), Zero)

\* C9: the change computed by the Finnhub callback is 0 when the previous
\* close is 0, is 100 * (c - pc) / pc when both are finite and pc is not 0,
\* and is 10 for c = 110, pc = 100.
C9_ChangePercent ==
  (probe.used /\ probe.called) =>
    LET c  == Number(probe.resp.data.c)
        p  == Number(probe.resp.data.pc)
        ch == probe.out.value.change
    IN  /\ ~probe.out.threw
        /\ (p.k = "num" /\ p.n = 0) => ch = [k |-> "num", n |-> 0, d |-> 1]
        /\ (p.k = "num" /\ p.n # 0 /\ c.k = "num") =>
             /\ ch.k = "num"
             /\ ch.n * c.d * p.n = 100 * (c.n * p.d - p.n * c.d) * ch.d
        /\ (probe.resp.data.c = JNum(Rat(110, 1))
              /\ probe.resp.data.pc = JNum(Rat(100, 1))) =>
             ch = [k |-> "num", n |-> 10, d |-> 1]

\* the callback was applied to a previous close of 0 with a current price
C9_Witness ==
  /\ probe.used
  /\ probe.called
  /\ probe.resp.data.pc = JNum(Rat(0, 1))
  /\ probe.resp.data.c = JNum(Rat(110, 1))
  /\ probe.out.value.change = Zero

\* the environment variable is absent, empty or blank
CredentialMissing ==
  ~env.set \/ \A i \in 1..Len(env.value) : env.value[i] = " "

\* C10: without a credential a started run has made no Finnhub request and
\* has called FMP.
C10_NoKeyNoRequest ==
  \A r \in Runs :
    (pc[r] # "idle" /\ CredentialMissing) =>
      (calls[r].A = 0 /\ calls[r].B = 1)

\* a run started with a blank credential waits for FMP
C10_Witness ==
  \E r \in Runs :
    /\ env.set /\ env.value = <<" ">>
    /\ pc[r] = "B"
    /\ inflightA[r] = {}
    /\ inflightB[r]
    /\ calls[r] = [A |-> 0, B |-> 1, C |-> 0]

\* C11: the first failed Finnhub request fails the whole call: in that step
\* the run moves from Finnhub to FMP, the values collected so far are dropped
\* and stocks and dataSource stay as they are; when the run ends later it
\* stores the list of FMP or of TwelveData and a source other than Finnhub.
C11_FinnhubAllOrNothing ==
  [][\A r \in Runs :
       /\ (failedA'[r] /\ ~failedA[r]) =>
            /\ pc[r] = "A" /\ pc'[r] = "B"
            /\ inflightB'[r]
            /\ UNCHANGED << stocks, dataSource >>
       /\ failedA'[r] => (resA'[r] = EmptySlots /\ inflightA'[r] = {})
       /\ (failedA[r] /\ pc[r] # "done" /\ pc'[r] = "done") =>
            /\ dataSource' \in {"FMP", "TwelveData", "Demo"}
            /\ stocks' = IF pc[r] = "B" THEN resB'[r] ELSE Values(resC'[r])]_vars

\* a run whose Finnhub call failed ended with the list of FMP
C11_Witness ==
  \E r \in Runs :
    /\ failedA[r]
    /\ calls[r].A = Len(SYMBOLS)
    /\ pc[r] = "done"
    /\ dataSource = "FMP"
    /\ stocks = resB[r]
    /\ resA[r] = EmptySlots

\* the stored list has one quote per symbol of SYMBOLS, in order, with
\* numeric price and change
OneToOne(list) ==
  /\ Len(list) = Len(SYMBOLS)
  /\ \A i \in Slots :
       /\ list[i].symbol = SYMBOLS[i]
       /\ ~IsNaN(list[i].price)
       /\ ~IsNaN(list[i].change)

\* C12: fetchWithFMP supplies the result only when the returned list maps
\* one-to-one onto SYMBOLS and every price and changesPercentage is numeric.
C12_FMPValidates == (dataSource = "FMP") => OneToOne(stocks)

\* C13: no quote with a non-numeric price is stored with dataSource = Finnhub.
C13_FinnhubRejectsMalformed ==
  (dataSource = "Finnhub") =>
    \A i \in 1..Len(stocks) : ~IsNaN(stocks[i].price)

\* C14: once a run has moved past Finnhub, none of that call's per-symbol
\* requests is still unanswered, and once it has moved past TwelveData none of
\* TwelveData's is.
C14_RequestsCompleteFirst ==
  \A r \in Runs :
    /\ pc[r] \in {"B", "C", "done"} => (inflightA[r] = {} /\ abandonedA[r] = 0)
    /\ pc[r] = "done" => inflightC[r] = {}

\* C15: the value collected at position i of a Finnhub or TwelveData call is
\* the quote of SYMBOLS[i] whatever the order of the answers, and so is the
\* list stored from such a call.
C15_SymbolOrderKept ==
  /\ \A r \in Runs : \A i \in Slots :
       /\ resA[r][i] # <<>> => resA[r][i][1].symbol = SYMBOLS[i]
       /\ resC[r][i] # <<>> => resC[r][i][1].symbol = SYMBOLS[i]
  /\ dataSource \in {"Finnhub", "TwelveData"} =>
       /\ Len(stocks) = Len(SYMBOLS)
       /\ \A i \in Slots : stocks[i].symbol = SYMBOLS[i]

\* the answer for the last symbol has arrived before the one for the first
C15_Witness ==
  \E r \in Runs :
    /\ pc[r] = "C"
    /\ resC[r][1] = <<>>
    /\ resC[r][Len(SYMBOLS)] # <<>>
    /\ resC[r][Len(SYMBOLS)][1].symbol = SYMBOLS[Len(SYMBOLS)]

\* C16: in the step in which a run ends from TwelveData, every stored quote
\* has change 0 and note is the TwelveData text, whether or not a price was
\* substituted.
C16_TwelveDataZeroChangeAndNote ==
  [][\A r \in Runs :
       (pc[r] = "C" /\ pc'[r] = "done" /\ stocks' = Values(resC'[r])) =>
         /\ note' = NoteTwelveData
         /\ \A i \in 1..Len(stocks') : stocks'[i].change = Zero]_vars

\* every TwelveData request was answered with the price "200.5", nothing was
\* substituted, and note carries the TwelveData text all the same
C16_Witness ==
  \E r \in Runs :
    /\ pc[r] = "done"
    /\ dataSource = "TwelveData"
    /\ rejectedC[r] = {}
    /\ Len(stocks) = Len(SYMBOLS)
    /\ \A i \in Slots :
         stocks[i].price = Rat(401, 2) /\ stocks[i].change = Zero
    /\ note = NoteTwelveData

\* C17: a run that awaits TwelveData stays there until it ends with
\* dataSource = TwelveData and a finite price for every symbol, the fallback
\* price where the request was rejected; no step stores the demo data.
C17_TwelveDataNeverFails ==
  [][/\ \A r \in Runs :
          pc[r] = "C" =>
            /\ pc'[r] \in {"C", "done"}
            /\ pc'[r] = "done" =>
                 /\ dataSource' = "TwelveData"
                 /\ stocks' = Values(resC'[r])
                 /\ \A i \in Slots :
                      /\ NumberIsFinite(stocks'[i].price)
                      /\ i \in rejectedC'[r] =>
                           stocks'[i].price = FallbackPrice(SYMBOLS[i])
     /\ note' # NoteDemo
     /\ dataSource' = "Demo" => dataSource = "Demo"]_vars

\* Finnhub and FMP failed, every TwelveData request was rejected, and the run
\* ended with dataSource = TwelveData and the fallback prices
C17_Witness ==
  \E r \in Runs :
    /\ failedA[r]
    /\ calls[r].B = 1
    /\ rejectedC[r] = Slots
    /\ pc[r] = "done"
    /\ dataSource = "TwelveData"
    /\ \A i \in Slots : stocks[i].price = FallbackPrice(SYMBOLS[i])

\* the first run has ended and no other run has started
SingleRunEnded ==
  /\ pc[1] = "done"
  /\ \A q \in Runs \ {1} : pc[q] = "idle"

\* C18: when the only run started from the initial state has ended, note is
\* empty exactly when dataSource is Finnhub or FMP, it is the TwelveData text
\* exactly when dataSource is TwelveData, and it is the demo text exactly when
\* dataSource is Demo.
C18_NoteAgreesWithSource ==
  SingleRunEnded =>
    /\ (note = "") <=> (dataSource \in {"Finnhub", "FMP"})
    /\ (note = NoteTwelveData) <=> (dataSource = "TwelveData")
    /\ (note = NoteDemo) <=> (dataSource = "Demo")

\* the single run ended from FMP with an empty note
C18_Witness ==
  /\ SingleRunEnded
  /\ dataSource = "FMP"
  /\ note = ""
  /\ stocks = resB[1]

\* C19: the step in which the Finnhub or the FMP call of a run fails leaves
\* stocks, dataSource and note as they are (a run without key writes only the
\* empty note of line 103), and dataSource becomes Finnhub or FMP only in the
\* step in which a run stores that call's complete result.
C19_FailedAttemptWritesNothing ==
  [][/\ \A r \in Runs :
          /\ << pc[r], pc'[r] >> \in { <<"A", "B">>, <<"B", "C">> } =>
               UNCHANGED << stocks, dataSource, note >>
          /\ << pc[r], pc'[r] >> = <<"idle", "B">> =>
               (UNCHANGED << stocks, dataSource >> /\ note' = "")
     /\ (dataSource' = "Finnhub" /\ dataSource # "Finnhub") =>
          \E r \in Runs :
            /\ pc[r] = "A" /\ pc'[r] = "done"
            /\ AllFilled(resA'[r])
            /\ stocks' = Values(resA'[r])
     /\ (dataSource' = "FMP" /\ dataSource # "FMP") =>
          \E r \in Runs :
            /\ pc[r] = "B" /\ pc'[r] = "done"
            /\ stocks' = resB'[r]]_vars

\* Finnhub and FMP have both failed and the three are as they were at the
\* start of the run
C19_Witness ==
  \E r \in Runs :
    /\ pc[r] = "C"
    /\ failedA[r]
    /\ calls[r].B = 1
    /\ dataSource = "Demo"
    /\ stocks = << >>
    /\ note = ""

\* what a finished run stored when it ended: the name, the list and the note
\* of the adapter whose result it took
RunResult(r) ==
  IF calls[r].C > 0 THEN << "TwelveData", Values(resC[r]), NoteTwelveData >>
  ELSE IF calls[r].B > 0 THEN << "FMP", resB[r], "" >>
  ELSE << "Finnhub", Values(resA[r]), "" >>

\* C20: with a second run started while the first is in flight, once every
\* started run has ended dataSource, stocks and note are those of one of the
\* runs, and loading is false only when no run is in flight.
C20_OverlappingRunsConsistent ==
  /\ (\A r \in OverlapRuns : pc[r] = "done") =>
       \E r \in OverlapRuns : << dataSource, stocks, note >> = RunResult(r)
  /\ ~loading => \A r \in OverlapRuns : pc[r] \in {"idle", "done"}

====
